---- MODULE Spec2Model ----
(***************************************************************************)
(* tugboat (src/tug/main.py): one invocation of the command line tool      *)
(* against a container engine.  The state is the engine's containers, the  *)
(* position of the running command, the locals of the handler (inventory,  *)
(* plans, unknown) and the log of the engine calls issued so far.          *)
(*                                                                         *)
(* main.py delegates to the compose library (Project, Service, Container)  *)
(* and to the engine client; the operators that stand for those calls are  *)
(* written from what the call does at the call site (compose 1.3, the      *)
(* release that has smart_recreate and compose.legacy) and are named after *)
(* the library function.                                                   *)
(***************************************************************************)
EXTENDS Integers, Sequences, FiniteSets, TLC

VARIABLES
    cmd,        \* options['COMMAND'], or "_ps" for `tug2 ps` without project
    args,       \* options['SERVICES'], a sequence of service names
    cfgValid,   \* whether config.load accepts the project file
    engine,     \* the engine: container id -> container
    engine0,    \* the engine as it was when the command started (history)
    nextId,     \* the id the engine gives to the next created container
    pc,         \* position in main()/Usage
    inventory,  \* ids of `containers` (up/diff lines 270, 303)
    plans,      \* service name -> plan, as _get_convergence_plans returned it
    planned,    \* services in the order the plans were computed
    unknown,    \* keys of the `unknown` dict of up/diff
    todo,       \* keys of `unknown` the reclaim loop has not visited yet
    cur,        \* the key the reclaim loop is at (0: none)
    log,        \* engine calls issued so far, in order
    out,        \* lines printed by diff, ps and _ps
    applied,    \* the plans project.up computed and executed
    projectArg, \* options['PROJECT'], a file name as its dot-separated parts
    dir,        \* os.listdir(os.getcwd()), file names as dot-separated parts
    projectname,\* the name the Project was built with (<<>>: none yet)
    loaded      \* the files config.load was called with

vars == <<cmd, args, cfgValid, engine, engine0, nextId, pc, inventory, plans, planned,
          unknown, todo, cur, log, out, applied, projectArg, dir, projectname,
          loaded>>

(***************************************************************************)
(* Bounds                                                                  *)
(***************************************************************************)
MaxContainers == 2      \* containers on the engine when the command starts

(***************************************************************************)
(* The project: two declared services, web linked to db; "old" is a        *)
(* service whose containers still carry the project label but that is no   *)
(* longer declared; "nosuch" is a name that is not a service.              *)
(***************************************************************************)
Services == <<"db", "web">>

DeclaredNames == {Services[i] : i \in 1..Len(Services)}

DependencyNames(s) == IF s = "web" THEN {"db"} ELSE {}

ArgChoices ==
    { <<>>, <<"db">>, <<"web">>, <<"web", "db">>, <<"nosuch">>, <<"db", "nosuch">> }

Commands ==
    {"up", "diff", "ps", "_ps", "kill", "down", "rm", "cull", "recreate", "build"}

Range(s) == {s[i] : i \in 1..Len(s)}

(***************************************************************************)
(* Containers.  svc: the service label; oneoff: the one-off label;         *)
(* running: State.Running; hashOk: the config-hash label equals the        *)
(* service's config hash.                                                  *)
(***************************************************************************)
Container(s, o, r, h) == [svc |-> s, oneoff |-> o, running |-> r, hashOk |-> h]

SvcOfIdx(i) == IF i = 0 THEN "db" ELSE IF i = 1 THEN "web" ELSE "old"

KindOf(k) ==
    Container(SvcOfIdx(k % 3), ((k \div 6) % 2) = 1, ((k \div 3) % 2) = 1,
              ((k \div 12) % 2) = 1)

\* the config hash only matters for managed containers of a declared service
Kinds ==
    {k \in 0..23 : LET c == KindOf(k) IN
                     (c.oneoff \/ c.svc = "old") => c.hashOk}

\* initial engines, ids given in the order of the kinds (ids are arbitrary)
InitEngines ==
    UNION { { [i \in 1..n |-> KindOf(f[i])] :
                f \in {g \in [1..n -> Kinds] :
                         \A i \in 1..n, j \in 1..n : i < j => g[i] <= g[j]} } :
            n \in 0..MaxContainers }

(***************************************************************************)
(* Project names and files.  A name is the sequence of its dot-separated   *)
(* parts: web.yml is <<"web", "yml">>.                                     *)
(***************************************************************************)
\* name.endswith('.' + ext)
EndsWith(name, ext) == Len(name) > 1 /\ name[Len(name)] = ext

Front(name) == SubSeq(name, 1, Len(name) - 1)

\* lines 124-130
CleanProjectName(name) ==
    LET a == IF EndsWith(name, "yml") THEN Front(name) ELSE name
    IN  IF EndsWith(a, "yaml") THEN Front(a) ELSE a

\* lines 132-134: the file _get_config loads for a name
ConfigFile(name) == Append(name, "yml")

\* the project the containers on the engine are labelled with
EngineProject == <<"web">>

ProjectArgs == { <<"web">>, <<"web", "yml">>, <<"web", "yaml">> }

DirFiles ==
    { <<"web", "yml">>, <<"web", "yaml">>, <<"web", "yml", "yml">>,
      <<"other", "yml">>, <<"notes", "txt">> }

NoPlans == [s \in {} |-> 0]

(***************************************************************************)
(* compose library reads, as main.py calls them                            *)
(***************************************************************************)
Ids(e) == DOMAIN e

\* service.containers(stopped=, one_off=): the containers labelled with the
\* service and with that one-off flag; only running ones unless stopped=True
ServiceContainers(e, s, stopped, one_off) ==
    {id \in Ids(e) : /\ e[id].svc = s
                     /\ e[id].oneoff = one_off
                     /\ (stopped \/ e[id].running)}

\* project.containers(stopped=, one_off=): the same through the project label
ProjectContainers(e, stopped, one_off) ==
    {id \in Ids(e) : /\ e[id].oneoff = one_off
                     /\ (stopped \/ e[id].running)}

\* lines 270, 303: project.containers(stopped=True) + project.containers(one_off=True)
Inventory(e) ==
    ProjectContainers(e, TRUE, FALSE) \cup ProjectContainers(e, FALSE, TRUE)

\* lines 164, 208: service.containers(stopped=True) + service.containers(one_off=True)
StatusContainers(e, s) ==
    ServiceContainers(e, s, TRUE, FALSE) \cup ServiceContainers(e, s, FALSE, TRUE)

\* project.get_services raises NoSuchService for a name that is no service
NoSuchService(names) == \E n \in Range(names) : n \notin DeclaredNames

RECURSIVE DepsClosure(_)
DepsClosure(S) ==
    LET T == S \cup UNION {DependencyNames(s) : s \in S}
    IN  IF T = S THEN S ELSE DepsClosure(T)

\* project.get_services(names, include_deps): all services when no name is
\* given; the result follows the project's declared order
GetServices(names, include_deps) ==
    LET wanted == IF names = <<>> THEN DeclaredNames ELSE Range(names)
        all    == IF include_deps THEN DepsClosure(wanted) ELSE wanted
    IN  SelectSeq(Services, LAMBDA s : s \in all)

\* service.convergence_plan(smart_recreate=smart)
ConvergencePlan(e, s, smart) ==
    LET containers == ServiceContainers(e, s, TRUE, FALSE)
        diverged   == \E id \in containers : ~e[id].hashOk
        stopped    == {id \in containers : ~e[id].running}
    IN  IF containers = {}
          THEN [action |-> "create", containers |-> {}]
        ELSE IF smart /\ ~diverged
          THEN IF stopped # {}
                 THEN [action |-> "start", containers |-> stopped]
                 ELSE [action |-> "noop", containers |-> containers]
        ELSE [action |-> "recreate", containers |-> containers]

\* project._get_convergence_plans(services, smart_recreate=smart): a service
\* one of whose dependencies is being recreated is planned without smart
\* recreate
RECURSIVE PlansFor(_, _, _, _)
PlansFor(e, svcs, acc, smart) ==
    IF svcs = <<>> THEN acc
    ELSE LET s       == Head(svcs)
             updated == {d \in DependencyNames(s) :
                           d \in DOMAIN acc /\ acc[d].action = "recreate"}
         IN  PlansFor(e, Tail(svcs),
                      acc @@ (s :> ConvergencePlan(e, s, smart /\ updated = {})),
                      smart)

\* the call without smart_recreate=True (the library's default is False)
GetConvergencePlansDefault(e, svcs) == PlansFor(e, svcs, NoPlans, FALSE)

\* lines 275, 308 (and project.up, lines 280-282): smart_recreate=True
GetConvergencePlans(e, svcs) == PlansFor(e, svcs, NoPlans, TRUE)

PlanContainers(pl) == UNION {pl[s].containers : s \in DOMAIN pl}

\* lines 276-279 / 316-317: del unknown[container.id] for every plan container;
\* del raises KeyError for a key that is not (or no longer) in the dict
DelKeyError(u, pl) ==
    \/ ~(PlanContainers(pl) \subseteq u)
    \/ \E s \in DOMAIN pl, t \in DOMAIN pl :
          s # t /\ pl[s].containers \cap pl[t].containers # {}

\* the deletion that leaves the containers of a noop plan in the dict
DelPlannedSkipNoop(u, pl) ==
    u \ UNION {pl[s].containers : s \in {t \in DOMAIN pl : pl[t].action # "noop"}}

DelPlanned(u, pl) == u \ PlanContainers(pl)

\* lines 303-317 (270-279 in up): the keys left in unknown once the containers
\* of the plans for the named services are deleted from the inventory
OrphanSet(e, names) ==
    DelPlanned(Inventory(e), GetConvergencePlans(e, GetServices(names, TRUE)))

(***************************************************************************)
(* Engine calls                                                            *)
(***************************************************************************)
Call(op, id, by) == [op |-> op, id |-> id, by |-> by]

RECURSIVE SetToSeq(_)
SetToSeq(S) ==
    IF S = {} THEN <<>>
    ELSE LET m == CHOOSE x \in S : \A y \in S : x <= y
         IN  <<m>> \o SetToSeq(S \ {m})

Calls(op, S, by) == LET q == SetToSeq(S) IN [i \in 1..Len(q) |-> Call(op, q[i], by)]

SetRunning(e, S, r) ==
    [id \in Ids(e) |-> IF id \in S THEN [e[id] EXCEPT !.running = r] ELSE e[id]]

Remove(e, S) == [id \in Ids(e) \ S |-> e[id]]

Create(e, id, s) == e @@ (id :> Container(s, FALSE, TRUE, TRUE))



(***************************************************************************)
(* project.up: the plans are computed on the engine as it is, then each    *)
(* service's plan is executed in turn (service.execute_convergence_plan)   *)
(***************************************************************************)
RECURSIVE RecreateAll(_, _, _)
RecreateAll(st, s, q) ==
    IF q = <<>> THEN st
    ELSE LET old == Head(q)
             new == st.nid
         IN  RecreateAll(
               [e   |-> Remove(Create(st.e, new, s), {old}),
                nid |-> new + 1,
                lg  |-> st.lg \o << Call("stop", old, "project.up"),
                                    Call("create", new, "project.up"),
                                    Call("start", new, "project.up"),
                                    Call("remove", old, "project.up") >>],
               s, Tail(q))

ExecutePlan(st, s, plan) ==
    IF plan.action = "create"
      THEN [e   |-> Create(st.e, st.nid, s),
            nid |-> st.nid + 1,
            lg  |-> st.lg \o << Call("create", st.nid, "project.up"),
                                Call("start", st.nid, "project.up") >>]
    ELSE IF plan.action = "recreate"
      THEN RecreateAll(st, s, SetToSeq(plan.containers))
    ELSE IF plan.action = "start"
      THEN [e   |-> SetRunning(st.e, plan.containers, TRUE),
            nid |-> st.nid,
            lg  |-> st.lg \o Calls("start", plan.containers, "project.up")]
    ELSE st

RECURSIVE ExecutePlans(_, _, _)
ExecutePlans(st, svcs, pl) ==
    IF svcs = <<>> THEN st
    ELSE ExecutePlans(ExecutePlan(st, Head(svcs), pl[Head(svcs)]), Tail(svcs), pl)

\* the plans project.up computes: lines 280-282 pass smart_recreate=True, and
\* start_deps defaults to True
\* project.up without smart_recreate=True (the library's default is False)
ProjectUpPlansDefault(e, names) == PlansFor(e, GetServices(names, TRUE), NoPlans, FALSE)

ProjectUpPlans(e, names) == PlansFor(e, GetServices(names, TRUE), NoPlans, TRUE)

ProjectUp(e, nid, lg, names) ==
    ExecutePlans([e |-> e, nid |-> nid, lg |-> lg], GetServices(names, TRUE),
                 ProjectUpPlans(e, names))

(***************************************************************************)
(* Printed lines                                                           *)
(***************************************************************************)
PlanLine(s, plan) ==
    [line |-> "plan", project |-> <<>>, service |-> s, action |-> plan.action,
     containers |-> plan.containers, container |-> 0]

DeleteLine(id) ==
    [line |-> "orphan", project |-> <<>>, service |-> "", action |-> "delete",
     containers |-> {}, container |-> id]

StatusLine(s, id, state) ==
    [line |-> "status", project |-> <<>>, service |-> s, action |-> state,
     containers |-> {}, container |-> id]

\* _ps, lines 175-182: a project and what was counted for it (the containers
\* behind the per-state counts, and the number of services counted Uncreated)
ProjectLine(name, counted, uncreated) ==
    [line |-> "project", project |-> name, service |-> "", action |-> "counts",
     containers |-> counted, container |-> uncreated]

\* _ps, lines 188-199: a container left in unknown
UntrackedLine(id) ==
    [line |-> "untracked", project |-> <<>>, service |-> "", action |-> "",
     containers |-> {}, container |-> id]

\* container.human_readable_state
HumanReadableState(c) == IF c.running THEN "Up" ELSE "Exit"

ServiceStatus(e, s) ==
    LET c == SetToSeq(ServiceContainers(e, s, TRUE, FALSE))
             \o SetToSeq(ServiceContainers(e, s, FALSE, TRUE))
    IN  IF c = <<>>
          THEN << StatusLine(s, 0, "Uncreated") >>
          ELSE [i \in 1..Len(c) |-> StatusLine(s, c[i], HumanReadableState(e[c[i]]))]

RECURSIVE StatusView(_, _)
StatusView(e, svcs) ==
    IF svcs = <<>> THEN <<>>
    ELSE ServiceStatus(e, Head(svcs)) \o StatusView(e, Tail(svcs))

\* the orders a `for key in dict` loop can take
Orders(S) ==
    {q \in [1..Cardinality(S) -> S] :
        \A i \in 1..Cardinality(S), j \in 1..Cardinality(S) : q[i] = q[j] => i = j}

Init ==
    /\ cmd \in Commands
    /\ args \in ArgChoices
    /\ cfgValid \in BOOLEAN
    /\ engine \in InitEngines
    /\ engine0 = engine
    /\ nextId = MaxContainers + 1
    /\ pc = "start"
    /\ inventory = {}
    /\ plans = NoPlans
    /\ planned = <<>>
    /\ unknown = {}
    /\ todo = {}
    /\ cur = 0
    /\ log = <<>>
    /\ out = <<>>
    /\ applied = NoPlans
    /\ projectArg = EngineProject
    /\ dir = {ConfigFile(EngineProject)}
    /\ projectname = <<>>
    /\ loaded = {}


(***************************************************************************)
(* main() and Usage.__init__                                               *)
(***************************************************************************)
Handler == UNCHANGED <<cmd, args, cfgValid, engine0, projectArg, dir>>

\* Start with the ConfigurationError swallowed
StartIgnoresConfigError ==
    /\ pc = "start"
    /\ pc' = cmd
    /\ projectname' = (IF cmd = "_ps" THEN <<>> ELSE projectArg)
    /\ loaded' = (IF cmd = "_ps" THEN {} ELSE {ConfigFile(projectArg)})
    /\ Handler
    /\ UNCHANGED applied
    /\ UNCHANGED <<engine, nextId, inventory, plans, planned, unknown, todo, cur,
                   log, out>>

\* config.load(filename): ConfigurationError for a file that is not there or
\* that is not a valid configuration
ConfigLoads(file) == file \in dir /\ cfgValid

\* the containers that carry the label of the project called name
ProjectEngine(name) == IF name = EngineProject THEN engine ELSE <<>>

\* lines 86-122: dispatch; the project is named by options['PROJECT'] as given
\* and its configuration is read from '{name}.yml'; config.load raises
\* ConfigurationError, main exits 1
Start ==
    /\ pc = "start"
    /\ IF cmd = "_ps"
         THEN /\ pc' = "_ps"
              /\ projectname' = <<>>
              /\ loaded' = {}
         ELSE /\ projectname' = projectArg
              /\ loaded' = {ConfigFile(projectArg)}
              /\ pc' = IF ConfigLoads(ConfigFile(projectArg)) THEN cmd ELSE "exit1"
    /\ Handler
    /\ UNCHANGED applied
    /\ UNCHANGED <<engine, nextId, inventory, plans, planned, unknown, todo, cur,
                   log, out>>

\* lines 136-141: the project files of the directory, in the order q of the
\* listing, each turned into a project name
ProjectNamesInDir(q) == [i \in 1..Len(q) |-> CleanProjectName(q[i])]

ProjectFiles == {f \in dir : EndsWith(f, "yaml") \/ EndsWith(f, "yml")}

\* lines 154-182, one turn of `for projectname in projectnames`: the project's
\* configuration is loaded, and every container of each of its services is
\* deleted from unknown (KeyError when it is no longer there) and counted
PsProject(st, name) ==
    IF st.status # "ok" THEN st
    ELSE IF ~ConfigLoads(ConfigFile(name))
      THEN [st EXCEPT !.status = "exit1", !.loaded = @ \cup {ConfigFile(name)}]
    ELSE LET e == ProjectEngine(name)
             c == UNION {StatusContainers(e, s) : s \in DeclaredNames}
             n == Cardinality({s \in DeclaredNames : StatusContainers(e, s) = {}})
         IN  IF ~(c \subseteq st.unknown)
               THEN [st EXCEPT !.status = "crash",
                               !.loaded = @ \cup {ConfigFile(name)}]
               ELSE [st EXCEPT !.unknown = @ \ c,
                               !.lines = Append(@, ProjectLine(name, c, n)),
                               !.loaded = @ \cup {ConfigFile(name)}]

RECURSIVE PsProjects(_, _)
PsProjects(st, names) ==
    IF names = <<>> THEN st
    ELSE PsProjects(PsProject(st, Head(names)), Tail(names))

\* lines 143-200
PsAll ==
    /\ pc = "_ps"
    /\ \E q \in Orders(ProjectFiles) :
          LET st == PsProjects([status |-> "ok", unknown |-> Ids(engine),
                                lines |-> <<>>, loaded |-> {}],
                               ProjectNamesInDir(q))
          IN  /\ unknown' = st.unknown
              /\ loaded' = st.loaded
              /\ projectname' = (IF q = <<>> THEN <<>> ELSE CleanProjectName(q[Len(q)]))
              /\ IF st.status = "ok"
                   THEN /\ pc' = "done"
                        /\ \E os \in Orders(st.unknown) :
                              out' = st.lines
                                     \o [i \in 1..Len(os) |-> UntrackedLine(os[i])]
                   ELSE /\ pc' = st.status
                        /\ out' = st.lines
    /\ Handler
    /\ UNCHANGED applied
    /\ UNCHANGED <<engine, nextId, inventory, plans, planned, todo, cur, log>>

\* lines 202-224
Ps ==
    /\ pc = "ps"
    /\ IF NoSuchService(args)
         THEN /\ pc' = "exit1"
              /\ out' = out
         ELSE /\ pc' = "done"
              /\ out' = out \o StatusView(ProjectEngine(projectname),
                                           GetServices(args, FALSE))
    /\ Handler
    /\ UNCHANGED <<applied, projectname, loaded>>
    /\ UNCHANGED <<engine, nextId, inventory, plans, planned, unknown, todo, cur, log>>

\* lines 226-227
Build ==
    /\ pc = "build"
    /\ pc' = IF NoSuchService(args) THEN "exit1" ELSE "done"
    /\ Handler
    /\ UNCHANGED <<applied, projectname, loaded>>
    /\ UNCHANGED <<engine, nextId, inventory, plans, planned, unknown, todo, cur,
                   log, out>>

(***************************************************************************)
(* kill, down, rm, cull, recreate                                          *)
(***************************************************************************)
\* the running managed containers of the named services
Running(e, names) ==
    UNION {ServiceContainers(e, s, FALSE, FALSE) : s \in Range(GetServices(names, FALSE))}

Stopped(e, names) ==
    UNION {ServiceContainers(e, s, TRUE, FALSE) : s \in Range(GetServices(names, FALSE))}
      \ Running(e, names)

\* project.kill(service_names, signal='SIGTERM'): the signal is sent to every
\* running container; which of them exit on it is up to the containers
ProjectKill(from, to) ==
    /\ pc = from
    /\ IF NoSuchService(args)
         THEN /\ pc' = "exit1"
              /\ UNCHANGED <<engine, log>>
         ELSE /\ pc' = to
              /\ log' = log \o Calls("kill", Running(engine, args), "project.kill")
              /\ \E exited \in SUBSET Running(engine, args) :
                    engine' = SetRunning(engine, exited, FALSE)
    /\ Handler
    /\ UNCHANGED <<applied, projectname, loaded>>
    /\ UNCHANGED <<nextId, inventory, plans, planned, unknown, todo, cur, out>>

\* project.stop(service_names)
ProjectStop(from, to) ==
    /\ pc = from
    /\ IF NoSuchService(args)
         THEN /\ pc' = "exit1"
              /\ UNCHANGED <<engine, log>>
         ELSE /\ pc' = to
              /\ log' = log \o Calls("stop", Running(engine, args), "project.stop")
              /\ engine' = SetRunning(engine, Running(engine, args), FALSE)
    /\ Handler
    /\ UNCHANGED <<applied, projectname, loaded>>
    /\ UNCHANGED <<nextId, inventory, plans, planned, unknown, todo, cur, out>>

\* project.remove_stopped(service_names)
ProjectRemoveStopped(from, to) ==
    /\ pc = from
    /\ IF NoSuchService(args)
         THEN /\ pc' = "exit1"
              /\ UNCHANGED <<engine, log>>
         ELSE /\ pc' = to
              /\ log' = log \o Calls("remove", Stopped(engine, args),
                                     "project.remove_stopped")
              /\ engine' = Remove(engine, Stopped(engine, args))
    /\ Handler
    /\ UNCHANGED <<applied, projectname, loaded>>
    /\ UNCHANGED <<nextId, inventory, plans, planned, unknown, todo, cur, out>>

\* project.restart(service_names): every running container is restarted
ProjectRestart(from, to) ==
    /\ pc = from
    /\ IF NoSuchService(args)
         THEN /\ pc' = "exit1"
              /\ UNCHANGED log
         ELSE /\ pc' = to
              /\ log' = log \o Calls("restart", Running(engine, args), "project.restart")
    /\ Handler
    /\ UNCHANGED <<applied, projectname, loaded>>
    /\ UNCHANGED <<engine, nextId, inventory, plans, planned, unknown, todo, cur, out>>

\* lines 232-234
Kill == ProjectKill("kill", "ps")

\* lines 246-249
Rm == ProjectRemoveStopped("rm", "ps")

\* lines 251-255
DownKill == ProjectKill("down", "down_stop")

DownStop == ProjectStop("down_stop", "ps")

\* lines 257-262
CullKill == ProjectKill("cull", "cull_stop")

\* cull without the project.stop of line 259
CullSkipStop ==
    /\ pc = "cull_stop"
    /\ pc' = IF NoSuchService(args) THEN "exit1" ELSE "cull_rm"
    /\ Handler
    /\ UNCHANGED <<applied, projectname, loaded>>
    /\ UNCHANGED <<engine, log, nextId, inventory, plans, planned, unknown, todo, cur,
                   out>>

CullStop == ProjectStop("cull_stop", "cull_rm")

CullRemove == ProjectRemoveStopped("cull_rm", "ps")

\* lines 264-267
Recreate == ProjectRestart("recreate", "ps")

(***************************************************************************)
(* up                                                                      *)
(***************************************************************************)
\* lines 270-279: inventory, plans, and the unknown dict less the plan containers
UpPlan ==
    /\ pc = "up"
    /\ inventory' = Inventory(engine)
    /\ IF NoSuchService(args)
         THEN /\ pc' = "exit1"
              /\ unknown' = inventory'
              /\ UNCHANGED <<plans, planned>>
         ELSE /\ planned' = GetServices(args, TRUE)
              /\ plans' = GetConvergencePlans(engine, planned')
              /\ IF DelKeyError(inventory', plans')
                   THEN /\ pc' = "crash"
                        /\ unknown' = inventory'
                   ELSE /\ pc' = "up_apply"
                        /\ unknown' = DelPlanned(inventory', plans')
    /\ Handler
    /\ UNCHANGED <<applied, projectname, loaded>>
    /\ UNCHANGED <<engine, nextId, todo, cur, log, out>>

\* UpApply with the unknown dict filled from the containers listed after project.up
UpApplyLateOrphans ==
    /\ pc = "up_apply"
    /\ applied' = ProjectUpPlans(engine, args)
    /\ LET st == ProjectUp(engine, nextId, log, args)
       IN  /\ engine' = st.e
           /\ nextId' = st.nid
           /\ log' = st.lg
           /\ unknown' = DelPlanned(Inventory(st.e), plans)
    /\ IF Len(args) = 0
         THEN pc' = "reclaim" /\ todo' = unknown'
         ELSE pc' = "ps" /\ todo' = {}
    /\ Handler
    /\ UNCHANGED <<projectname, loaded>>
    /\ UNCHANGED <<inventory, plans, planned, cur, out>>

\* UpApply without the project.up call
UpApplyNoProjectUp ==
    /\ pc = "up_apply"
    /\ IF Len(args) = 0
         THEN pc' = "reclaim" /\ todo' = unknown
         ELSE pc' = "ps" /\ todo' = {}
    /\ Handler
    /\ UNCHANGED <<applied, projectname, loaded>>
    /\ UNCHANGED <<engine, nextId, log, inventory, plans, planned, unknown, cur, out>>

\* UpApply that enters the reclaim loop whatever the service arguments
UpApplyAlwaysReclaim ==
    /\ pc = "up_apply"
    /\ applied' = ProjectUpPlans(engine, args)
    /\ LET st == ProjectUp(engine, nextId, log, args)
       IN  /\ engine' = st.e
           /\ nextId' = st.nid
           /\ log' = st.lg
    /\ pc' = "reclaim" /\ todo' = unknown
    /\ Handler
    /\ UNCHANGED <<projectname, loaded>>
    /\ UNCHANGED <<inventory, plans, planned, unknown, cur, out>>

\* lines 280-284: project.up, then the reclaim loop only when no service is named
UpApply ==
    /\ pc = "up_apply"
    /\ applied' = ProjectUpPlans(engine, args)
    /\ LET st == ProjectUp(engine, nextId, log, args)
       IN  /\ engine' = st.e
           /\ nextId' = st.nid
           /\ log' = st.lg
    /\ IF Len(args) = 0
         THEN pc' = "reclaim" /\ todo' = unknown
         ELSE pc' = "ps" /\ todo' = {}
    /\ Handler
    /\ UNCHANGED <<projectname, loaded>>
    /\ UNCHANGED <<inventory, plans, planned, unknown, cur, out>>

\* ReclaimNext with container.remove() inside the `if container.is_running`
ReclaimNextRemoveInsideIf ==
    /\ pc = "reclaim"
    /\ \E id \in todo :
          /\ todo' = todo \ {id}
          /\ IF engine[id].running
               THEN /\ log' = Append(log, Call("kill", id, "reclaim"))
                    /\ pc' = "r_wait1"
                    /\ cur' = id
               ELSE /\ log' = log
                    /\ pc' = "reclaim"
                    /\ cur' = 0
    /\ Handler
    /\ UNCHANGED <<applied, projectname, loaded>>
    /\ UNCHANGED <<engine, nextId, inventory, plans, planned, unknown, out>>

\* lines 285-288: the next key of unknown; SIGTERM when the container is running
ReclaimNext ==
    /\ pc = "reclaim"
    /\ \E id \in todo :
          /\ cur' = id
          /\ todo' = todo \ {id}
          /\ IF engine[id].running
               THEN /\ log' = Append(log, Call("kill", id, "reclaim"))
                    /\ pc' = "r_wait1"
               ELSE /\ log' = log
                    /\ pc' = "r_remove"
    /\ Handler
    /\ UNCHANGED <<applied, projectname, loaded>>
    /\ UNCHANGED <<engine, nextId, inventory, plans, planned, unknown, out>>

\* Wait1Exit with the stop issued only when the wait timed out
Wait1ExitThenRemove ==
    /\ pc = "r_wait1"
    /\ engine' = SetRunning(engine, {cur}, FALSE)
    /\ log' = Append(log, Call("wait_exit", cur, "reclaim"))
    /\ pc' = "r_remove"
    /\ Handler
    /\ UNCHANGED <<applied, projectname, loaded>>
    /\ UNCHANGED <<nextId, inventory, plans, planned, unknown, todo, cur, out>>

\* lines 289-292: the container exits within the 10 seconds
Wait1Exit ==
    /\ pc = "r_wait1"
    /\ engine' = SetRunning(engine, {cur}, FALSE)
    /\ log' = Append(log, Call("wait_exit", cur, "reclaim"))
    /\ pc' = "r_stop"
    /\ Handler
    /\ UNCHANGED <<applied, projectname, loaded>>
    /\ UNCHANGED <<nextId, inventory, plans, planned, unknown, todo, cur, out>>

\* Wait1Timeout with the ReadTimeout left uncaught
Wait1TimeoutSurfaced ==
    /\ pc = "r_wait1"
    /\ log' = Append(log, Call("wait_timeout", cur, "reclaim"))
    /\ pc' = "exit1"
    /\ Handler
    /\ UNCHANGED <<applied, projectname, loaded>>
    /\ UNCHANGED <<engine, nextId, inventory, plans, planned, unknown, todo, cur, out>>

\* lines 289-292: ReadTimeout, caught and passed over
Wait1Timeout ==
    /\ pc = "r_wait1"
    /\ log' = Append(log, Call("wait_timeout", cur, "reclaim"))
    /\ pc' = "r_stop"
    /\ Handler
    /\ UNCHANGED <<applied, projectname, loaded>>
    /\ UNCHANGED <<engine, nextId, inventory, plans, planned, unknown, todo, cur, out>>

\* ReclaimStop without the container.stop() call
ReclaimSkipStop ==
    /\ pc = "r_stop"
    /\ pc' = "r_wait2"
    /\ Handler
    /\ UNCHANGED <<applied, projectname, loaded>>
    /\ UNCHANGED <<engine, nextId, inventory, plans, planned, unknown, todo, cur,
                   log, out>>

\* line 293: container.stop() returns once the engine has stopped the container
ReclaimStop ==
    /\ pc = "r_stop"
    /\ engine' = SetRunning(engine, {cur}, FALSE)
    /\ log' = Append(log, Call("stop", cur, "reclaim"))
    /\ pc' = "r_wait2"
    /\ Handler
    /\ UNCHANGED <<applied, projectname, loaded>>
    /\ UNCHANGED <<nextId, inventory, plans, planned, unknown, todo, cur, out>>

\* lines 294-297: the wait answers
Wait2Exit ==
    /\ pc = "r_wait2"
    /\ log' = Append(log, Call("wait_exit", cur, "reclaim"))
    /\ pc' = "r_remove"
    /\ Handler
    /\ UNCHANGED <<applied, projectname, loaded>>
    /\ UNCHANGED <<engine, nextId, inventory, plans, planned, unknown, todo, cur, out>>

\* Wait2Timeout with the ReadTimeout of the second wait left uncaught
Wait2TimeoutSurfaced ==
    /\ pc = "r_wait2"
    /\ log' = Append(log, Call("wait_timeout", cur, "reclaim"))
    /\ pc' = "exit1"
    /\ Handler
    /\ UNCHANGED <<applied, projectname, loaded>>
    /\ UNCHANGED <<engine, nextId, inventory, plans, planned, unknown, todo, cur, out>>

\* lines 294-297: the engine does not answer within the 10 seconds; ReadTimeout,
\* caught and passed over
Wait2Timeout ==
    /\ pc = "r_wait2"
    /\ log' = Append(log, Call("wait_timeout", cur, "reclaim"))
    /\ pc' = "r_remove"
    /\ Handler
    /\ UNCHANGED <<applied, projectname, loaded>>
    /\ UNCHANGED <<engine, nextId, inventory, plans, planned, unknown, todo, cur, out>>

\* line 298: container.remove(); the engine refuses to remove a running
\* container (APIError, main exits 1)
ReclaimRemove ==
    /\ pc = "r_remove"
    /\ log' = Append(log, Call("remove", cur, "reclaim"))
    /\ IF engine[cur].running
         THEN pc' = "exit1" /\ engine' = engine
         ELSE pc' = "reclaim" /\ engine' = Remove(engine, {cur})
    /\ cur' = 0
    /\ Handler
    /\ UNCHANGED <<applied, projectname, loaded>>
    /\ UNCHANGED <<nextId, inventory, plans, planned, unknown, todo, out>>

\* lines 285, 300: the loop is over
ReclaimDone ==
    /\ pc = "reclaim"
    /\ todo = {}
    /\ pc' = "ps"
    /\ Handler
    /\ UNCHANGED <<applied, projectname, loaded>>
    /\ UNCHANGED <<engine, nextId, inventory, plans, planned, unknown, todo, cur,
                   log, out>>

(***************************************************************************)
(* diff                                                                    *)
(***************************************************************************)
\* Diff that applies the plans it prints
DiffApplies ==
    /\ pc = "diff"
    /\ inventory' = Inventory(engine)
    /\ IF NoSuchService(args)
         THEN /\ pc' = "exit1"
              /\ unknown' = inventory'
              /\ UNCHANGED <<plans, planned, out, engine, nextId, log>>
         ELSE /\ planned' = GetServices(args, TRUE)
              /\ plans' = GetConvergencePlans(engine, planned')
              /\ pc' = "done"
              /\ unknown' = DelPlanned(inventory', plans')
              /\ \E ps \in Orders(DOMAIN plans'), os \in Orders(unknown') :
                    out' = [i \in 1..Len(ps) |-> PlanLine(ps[i], plans'[ps[i]])]
                           \o [i \in 1..Len(os) |-> DeleteLine(os[i])]
              /\ LET st == ProjectUp(engine, nextId, log, args)
                 IN  /\ engine' = st.e
                     /\ nextId' = st.nid
                     /\ log' = st.lg
    /\ Handler
    /\ UNCHANGED <<applied, projectname, loaded>>
    /\ UNCHANGED <<todo, cur>>

\* lines 302-329; `for service in plans` and `for id in unknown` walk a dict
Diff ==
    /\ pc = "diff"
    /\ inventory' = Inventory(engine)
    /\ IF NoSuchService(args)
         THEN /\ pc' = "exit1"
              /\ unknown' = inventory'
              /\ UNCHANGED <<plans, planned, out>>
         ELSE /\ planned' = GetServices(args, TRUE)
              /\ plans' = GetConvergencePlans(engine, planned')
              /\ IF DelKeyError(inventory', plans')
                   THEN /\ pc' = "crash"
                        /\ unknown' = inventory'
                        /\ out' = out
                   ELSE /\ pc' = "done"
                        /\ unknown' = DelPlanned(inventory', plans')
                        /\ \E ps \in Orders(DOMAIN plans'), os \in Orders(unknown') :
                              out' = [i \in 1..Len(ps) |-> PlanLine(ps[i], plans'[ps[i]])]
                                     \o [i \in 1..Len(os) |-> DeleteLine(os[i])]
    /\ Handler
    /\ UNCHANGED <<applied, projectname, loaded>>
    /\ UNCHANGED <<engine, nextId, todo, cur, log>>

Next ==
    \/ Start \/ PsAll \/ Ps \/ Build
    \/ Kill \/ Rm \/ DownKill \/ DownStop \/ CullKill \/ CullStop \/ CullRemove
    \/ Recreate
    \/ UpPlan \/ UpApply \/ ReclaimNext \/ Wait1Exit \/ Wait1Timeout \/ ReclaimStop
    \/ Wait2Exit \/ Wait2Timeout \/ ReclaimRemove \/ ReclaimDone
    \/ Diff

(***************************************************************************)
(* Name resolution: ps PROJECT and ps, over the project arguments and the  *)
(* directories; Spec runs every command with the project given as the bare *)
(* name and its .yml file in the directory.                                *)
(***************************************************************************)
InitNames ==
    /\ cmd \in {"ps", "_ps"}
    /\ args \in {<<>>, <<"db">>}
    /\ cfgValid = TRUE
    /\ engine \in InitEngines
    /\ engine0 = engine
    /\ nextId = MaxContainers + 1
    /\ pc = "start"
    /\ inventory = {}
    /\ plans = NoPlans
    /\ planned = <<>>
    /\ unknown = {}
    /\ todo = {}
    /\ cur = 0
    /\ log = <<>>
    /\ out = <<>>
    /\ applied = NoPlans
    /\ projectArg \in ProjectArgs
    /\ dir \in SUBSET DirFiles
    /\ projectname = <<>>
    /\ loaded = {}

NextNames == Start \/ PsAll \/ Ps

SpecNames == InitNames /\ [][NextNames]_vars

Spec == Init /\ [][Next]_vars

(***************************************************************************)
(* The invocations of up; the command is one sequential process, and a     *)
(* step of the reclaim loop or of the status print that can be taken is    *)
(* taken.                                                                  *)
(***************************************************************************)
InitUp == Init /\ cmd = "up"

NextUp ==
    \/ Start
    \/ UpPlan \/ UpApply \/ ReclaimNext \/ Wait1Exit \/ Wait1Timeout \/ ReclaimStop
    \/ Wait2Exit \/ Wait2Timeout \/ ReclaimRemove \/ ReclaimDone
    \/ Ps

ReclaimPhase ==
    \/ ReclaimNext \/ Wait1Exit \/ Wait1Timeout \/ ReclaimStop
    \/ Wait2Exit \/ Wait2Timeout \/ ReclaimRemove \/ ReclaimDone
    \/ Ps

SpecFair == InitUp /\ [][NextUp]_vars /\ WF_vars(ReclaimPhase)

(***************************************************************************)
(* The reclaim phase of up, read off the log of engine calls                *)
(***************************************************************************)
ReclaimCalls(op, id) == {i \in 1..Len(log) : log[i] = Call(op, id, "reclaim")}

\* the wait that follows the SIGTERM of id ended in ReadTimeout
FirstWaitTimedOut(id) ==
    \E i \in ReclaimCalls("kill", id) :
        i + 1 <= Len(log) /\ log[i + 1] = Call("wait_timeout", id, "reclaim")

\* the container exited within the wait that follows its SIGTERM
FirstWaitExited(id) ==
    \E i \in ReclaimCalls("kill", id) :
        i + 1 <= Len(log) /\ log[i + 1] = Call("wait_exit", id, "reclaim")

ReclaimRan == cmd = "up" /\ args = <<>> /\ pc \in {"ps", "done"}

\* C1: in the reclaim phase of up, an orphan that was running and did not exit
\* within the wait after SIGTERM gets a stop after the SIGTERM and before its
\* removal, and its removal is issued once: never twice, and once when the
\* reclaim phase is over.
C1_StopBetweenKillAndRemove ==
    \A id \in unknown :
        FirstWaitTimedOut(id) =>
            /\ Cardinality(ReclaimCalls("remove", id)) <= 1
            /\ \A k \in ReclaimCalls("remove", id) :
                  \E i \in ReclaimCalls("kill", id), j \in ReclaimCalls("stop", id) :
                      i < j /\ j < k
            /\ ReclaimRan => Cardinality(ReclaimCalls("remove", id)) = 1

C1_Witness ==
    /\ ReclaimRan
    /\ \E id \in unknown :
          FirstWaitTimedOut(id) /\ ReclaimCalls("remove", id) # {}

\* C2: when up with no service named reaches the status print, no container of
\* the orphan set is left on the engine, whether the loop found it running or
\* stopped.
C2_NoOrphanLeft ==
    ReclaimRan => unknown \cap Ids(engine) = {}

C2_Witness ==
    /\ ReclaimRan
    /\ \E id \in unknown : ReclaimCalls("kill", id) # {}
    /\ \E id \in unknown : ReclaimCalls("kill", id) = {} /\ ~engine0[id].running

\* C3 as claimed: an orphan that exits within the wait after SIGTERM receives
\* no stop call.
C3_NoStopAfterExit ==
    \A id \in unknown : FirstWaitExited(id) => ReclaimCalls("stop", id) = {}

\* C3 as amended: the stop is not conditional on the wait.  An orphan the loop
\* found running gets SIGTERM, one wait, and then a stop whatever the wait's
\* outcome; an orphan the loop found stopped gets neither SIGTERM nor stop.
\* Read at the removal: a removed orphan was stopped exactly when it was sent
\* SIGTERM, and the stop is the call after the wait.
C3_StopWheneverRunning ==
    \A id \in unknown :
        /\ \A i \in ReclaimCalls("kill", id) :
              i + 2 <= Len(log) => log[i + 2] = Call("stop", id, "reclaim")
        /\ \A j \in ReclaimCalls("stop", id) :
              j > 2 /\ log[j - 2] = Call("kill", id, "reclaim")
        /\ ReclaimCalls("remove", id) # {} =>
              (ReclaimCalls("stop", id) # {} <=> engine0[id].running)

C3_Witness ==
    \E id \in unknown :
        /\ FirstWaitExited(id)
        /\ ReclaimCalls("stop", id) # {}
        /\ ReclaimCalls("remove", id) # {}

\* the ids project.up created
Created == {log[i].id : i \in {j \in 1..Len(log) : log[j].op = "create"}}

\* C4: the orphan set of up is the one computed on the containers that existed
\* before project.up ran, and the reclaim phase sends SIGTERM, stop and remove
\* only to containers of that set: never to a container that project.up
\* created or re-created.
C4_ReclaimOnlyPreexisting ==
    cmd = "up" =>
        /\ unknown \subseteq Ids(engine0)
        /\ unknown \cap Created = {}
        /\ \A i \in 1..Len(log) :
              log[i].by = "reclaim" =>
                  log[i].id \in unknown /\ log[i].id \notin Created

C4_Witness ==
    /\ ReclaimRan
    /\ Created # {}
    /\ \E i \in 1..Len(log) : log[i].by = "reclaim" /\ log[i].op = "remove"
    /\ \E s \in DOMAIN plans : plans[s].action = "recreate"

\* the positions of up and diff after the plan containers were deleted from unknown
Planned ==
    \/ cmd = "up" /\ pc \in {"up_apply", "reclaim", "r_wait1", "r_stop", "r_wait2",
                             "r_remove", "ps", "done"}
    \/ cmd = "diff" /\ pc = "done"

\* C5: once up or diff has deleted the plan containers from unknown, unknown and
\* the plan container lists are disjoint, together they are the inventory listed
\* at the start, and no container is in the lists of two plans.
C5_OrphansAndPlansPartition ==
    Planned =>
        /\ inventory = Inventory(engine0)
        /\ unknown \cap PlanContainers(plans) = {}
        /\ unknown \cup PlanContainers(plans) = inventory
        /\ \A s \in DOMAIN plans, t \in DOMAIN plans :
              s # t => plans[s].containers \cap plans[t].containers = {}

C5_Witness ==
    /\ Planned
    /\ unknown # {}
    /\ PlanContainers(plans) # {}

\* C6 as claimed: every container of the inventory that belongs to a service the
\* plans were computed for is in the list of exactly one plan and is not in
\* unknown.
C6_PlanCompleteness ==
    Planned =>
        \A id \in inventory :
            engine0[id].svc \in Range(planned) =>
                /\ Cardinality({s \in DOMAIN plans : id \in plans[s].containers}) = 1
                /\ id \notin unknown

\* the managed containers of a service when the plans were computed
Live(s) == ServiceContainers(engine0, s, TRUE, FALSE)

Differs(s) == \E id \in Live(s) : ~engine0[id].hashOk

AllRunning(s) == \A id \in Live(s) : engine0[id].running

DependencyRecreated(s) ==
    \E d \in DependencyNames(s) \cap DOMAIN plans : plans[d].action = "recreate"

C8_TimeoutNotSurfaced ==
    \A i \in 1..Len(log) :
        log[i].op = "wait_timeout" =>
            LET next == IF log[i - 1].op = "kill" THEN "stop" ELSE "remove"
            IN  /\ pc \notin {"exit1", "crash"}
                /\ i = Len(log) => pc = (IF next = "stop" THEN "r_stop" ELSE "r_remove")
                /\ i < Len(log) => log[i + 1] = Call(next, log[i].id, "reclaim")
                /\ ReclaimRan => \A id \in unknown : ReclaimCalls("remove", id) # {}

C8_Witness ==
    /\ ReclaimRan
    /\ \E i \in 1..Len(log) :
          /\ i + 5 <= Len(log)
          /\ log[i].op = "kill"
          /\ log[i + 1].op = "wait_timeout"
          /\ log[i + 2].op = "stop"
          /\ log[i + 3].op = "wait_timeout"
          /\ log[i + 4].op = "remove"
          /\ \E j \in (i + 5)..Len(log) :
                log[j].op = "remove" /\ log[j].by = "reclaim" /\ log[j].id # log[i].id

\* C9: diff, ps PROJECT and ps issue no engine call that creates, starts,
\* stops, kills, restarts or removes a container, and the engine's containers
\* and their states stay as they were when the command started.
C9_ReadOnly ==
    cmd \in {"diff", "ps", "_ps"} => log = <<>> /\ engine = engine0

C9_Witness ==
    /\ cmd = "diff"
    /\ pc = "done"
    /\ unknown # {}
    /\ \E s \in DOMAIN plans : plans[s].action \in {"create", "recreate", "start"}

ProjectCommands ==
    {"up", "kill", "down", "rm", "cull", "recreate", "build", "diff", "ps"}

\* C10: a PROJECT command given an invalid configuration or a name that is no
\* service of the project goes from its entry to exit code 1 and nowhere else,
\* with no engine call issued and the engine as it was.
C10_NoMutationOnBadInput ==
    (cmd \in ProjectCommands /\ (~cfgValid \/ NoSuchService(args))) =>
        /\ pc \in {"start", cmd, "exit1"}
        /\ log = <<>>
        /\ engine = engine0

C10_Witness ==
    /\ cmd = "cull"
    /\ cfgValid
    /\ args = <<"db", "nosuch">>
    /\ pc = "exit1"
    /\ ServiceContainers(engine, "db", FALSE, FALSE) # {}

\* the status lines printed for service s
StatusLinesOf(s) == {i \in 1..Len(out) : out[i].line = "status" /\ out[i].service = s}

\* C11: when up has completed, the status view has, for every requested
\* service, at least one line, and every line is that of a container that is
\* running, shown in the state of a running container; no line says Uncreated.
\* A service whose plan was create is among them.
C11_RequestedServicesRunning ==
    (cmd = "up" /\ pc = "done") =>
        \A s \in Range(GetServices(args, FALSE)) :
            /\ StatusLinesOf(s) # {}
            /\ \A i \in StatusLinesOf(s) :
                  /\ out[i].action # "Uncreated"
                  /\ out[i].container \in Ids(engine)
                  /\ engine[out[i].container].running
                  /\ out[i].action = HumanReadableState(engine[out[i].container])

C11_Witness ==
    /\ cmd = "up"
    /\ pc = "done"
    /\ \E s \in Range(GetServices(args, FALSE)) :
          /\ plans[s].action = "create"
          /\ StatusLinesOf(s) # {}

\* project.up has run in this invocation of up
UpApplied == cmd = "up" /\ DOMAIN applied # {}

MatchingAndRunning(s) == Live(s) # {} /\ ~Differs(s) /\ AllRunning(s)

PlanLineServices ==
    LET p == SelectSeq(out, LAMBDA l : l.line = "plan")
    IN  [i \in 1..Len(p) |-> p[i].service]

\* C13 as claimed: the plan lines diff prints are in the order the services
\* were named on the command line (the lines of services planned only as
\* dependencies left aside), or in the declared order of the project when no
\* service is named.
C13_PlanLinesInArgumentOrder ==
    (cmd = "diff" /\ pc = "done") =>
        IF args = <<>>
          THEN PlanLineServices = Services
          ELSE SelectSeq(PlanLineServices, LAMBDA s : s \in Range(args)) = args

\* C14 as claimed: for COMMAND PROJECT the project is the argument without its
\* .yml or .yaml suffix and the file read is the one the bare name reads; in
\* the ps without a project every file read is a file of the directory, and
\* when the listing completes every project file was read.
C14_NameResolution ==
    /\ (cmd = "ps" /\ pc # "start") =>
          /\ projectname = CleanProjectName(projectArg)
          /\ loaded = {ConfigFile(CleanProjectName(projectArg))}
    /\ (cmd = "_ps" /\ pc \notin {"start", "_ps"}) =>
          /\ loaded \subseteq dir
          /\ pc = "done" => ProjectFiles \subseteq loaded

\* the containers counted under a project line, and those listed as not tracked
CountedUnder(i) == IF out[i].line = "project" THEN out[i].containers ELSE {}

ListedUntracked(i) == IF out[i].line = "untracked" THEN {out[i].container} ELSE {}

\* C15 as claimed: the ps without a project never fails in the deletion from
\* unknown, and when it completes every container on the host is behind exactly
\* one line, a project's or a not-tracked one.
C15_TrackedUnknownPartition ==
    (cmd = "_ps" /\ pc \notin {"start", "_ps"}) =>
        /\ pc # "crash"
        /\ pc = "done" =>
              \A id \in Ids(engine) :
                  Cardinality({i \in 1..Len(out) :
                                  id \in CountedUnder(i) \cup ListedUntracked(i)}) = 1

\* the services a lifecycle command targets, and their managed containers when
\* the command started
Targeted == Range(GetServices(args, FALSE))

TargetedContainers == UNION {ServiceContainers(engine0, s, TRUE, FALSE) : s \in Targeted}

\* C16 as claimed: when recreate has completed, no container that belonged to a
\* targeted service before the command is left, and each targeted service has a
\* running container that did not exist before.
C16_RecreateReplaces ==
    (cmd = "recreate" /\ pc = "done") =>
        /\ TargetedContainers \cap Ids(engine) = {}
        /\ \A s \in Targeted :
              \E id \in ServiceContainers(engine, s, FALSE, FALSE) : id \notin Ids(engine0)

CullRank(op) == IF op = "kill" THEN 1 ELSE IF op = "stop" THEN 2 ELSE 3

\* state part of C17
CullInOrder ==
    cmd = "cull" =>
        /\ \A i \in 1..Len(log), j \in 1..Len(log) :
              i < j => CullRank(log[i].op) <= CullRank(log[j].op)
        /\ \A i \in 1..Len(log) :
              /\ log[i].op \in {"kill", "stop", "remove"}
              /\ log[i].id \in TargetedContainers
        /\ out # <<>> => pc = "done"
        /\ pc \in {"ps", "done"} =>
              /\ \A s \in Targeted : ServiceContainers(engine, s, TRUE, FALSE) = {}
              /\ \A id \in TargetedContainers :
                    \E k \in 1..Len(log) : log[k].op = "remove" /\ log[k].id = id

\* step part of C17: a container that a step of cull removes is not running
CullRemovesStopped ==
    cmd = "cull" => \A id \in Ids(engine) \ Ids(engine') : ~engine[id].running

\* C17: cull sends SIGTERM, then stops, then removes, the managed containers of
\* the targeted services and no other container, in that order; no container is
\* removed while it is running; when the status view is reached none of those
\* containers is left and each has been removed; the status view is printed
\* last.
C17_CullKillsStopsThenRemoves == [](CullInOrder) /\ [][CullRemovesStopped]_vars

C17_Witness ==
    /\ cmd = "cull" /\ pc = "done" /\ out # <<>>
    /\ \E i \in 1..Len(log), j \in 1..Len(log), k \in 1..Len(log) :
          /\ log[i].op = "kill" /\ log[j].op = "stop" /\ log[k].op = "remove"
          /\ log[i].id = log[j].id /\ log[j].id = log[k].id
    /\ \E k \in 1..Len(log) : log[k].op = "remove" /\ ~engine0[log[k].id].running

\* C18: an up that names at least one service never enters the reclaim loop:
\* no call is made by it, and every SIGTERM, stop and removal of the invocation
\* is that of a container of the computed plans; every other container that was
\* on the engine (of another service, of no declared service, one-off) is still
\* there, as it was.
C18_ScopedUpSkipsReclaim ==
    (cmd = "up" /\ args # <<>>) =>
        /\ todo = {}
        /\ pc \notin {"reclaim", "r_wait1", "r_stop", "r_wait2", "r_remove"}
        /\ \A i \in 1..Len(log) :
              /\ log[i].by # "reclaim"
              /\ log[i].op \in {"kill", "stop", "remove"} =>
                    log[i].id \in PlanContainers(plans)
        /\ \A id \in Ids(engine0) \ PlanContainers(plans) :
              id \in Ids(engine) /\ engine[id] = engine0[id]

C18_Witness ==
    /\ cmd = "up" /\ args # <<>> /\ pc = "done"
    /\ \E id \in unknown : id \in Ids(engine) /\ engine[id].running
    /\ \E i \in 1..Len(log) : log[i].op = "remove" /\ log[i].by = "project.up"

ReclaimWaits(id) ==
    ReclaimCalls("wait_exit", id) \cup ReclaimCalls("wait_timeout", id)

\* state part of C19: an orphan is sent each call of the loop at most once and
\* is waited for at most twice, and only if it was found running
BoundedWaits ==
    cmd = "up" =>
        /\ \A i \in 1..Len(log) : log[i].by = "reclaim" => log[i].id \in unknown
        /\ \A id \in unknown :
              /\ Cardinality(ReclaimWaits(id)) <= 2
              /\ Cardinality(ReclaimCalls("kill", id)) <= 1
              /\ Cardinality(ReclaimCalls("stop", id)) <= 1
              /\ Cardinality(ReclaimCalls("remove", id)) <= 1
              /\ ReclaimCalls("kill", id) = {} => ReclaimWaits(id) = {}

\* step part of C19: no step of the reclaim loop ends the command early
ReclaimGoesOn ==
    pc \in {"reclaim", "r_wait1", "r_stop", "r_wait2", "r_remove"} =>
        pc' \in {"reclaim", "r_wait1", "r_stop", "r_wait2", "r_remove", "ps"}

\* C19: an invocation of up that has entered the reclaim loop leaves it only
\* for the status print and reaches the end of that print, whether the waits
\* end in an exit or in a timeout; on the way each orphan is visited once and
\* waited for at most twice.
C19_ReclaimTerminates ==
    /\ []BoundedWaits
    /\ [][ReclaimGoesOn]_vars
    /\ (pc = "reclaim") ~> (pc = "done")

C19_Witness ==
    /\ cmd = "up" /\ pc = "done"
    /\ Cardinality(unknown) = 2
    /\ \A id \in unknown : Cardinality(ReclaimCalls("wait_timeout", id)) = 2

\* the containers of the delete lines diff printed
DiffDeleteLines ==
    {out[i].container : i \in {j \in 1..Len(out) : out[j].action = "delete"}}

\* the containers the reclaim loop of up removed
ReclaimRemoved ==
    {id \in Ids(engine0) : ReclaimCalls("remove", id) # {} /\ id \notin Ids(engine)}

\* C20 as claimed: for the same service arguments and the same engine state,
\* the containers diff lists with action delete are the orphan set of that
\* state, and they are the containers up has removed in its reclaim phase when
\* it completes.
C20_DiffPredictsUp ==
    /\ (cmd = "diff" /\ pc = "done") => DiffDeleteLines = OrphanSet(engine0, args)
    /\ (cmd = "up" /\ pc = "done") => ReclaimRemoved = OrphanSet(engine0, args)

====
